---------------------------- MODULE Spec2Model ----------------------------
(***************************************************************************)
(* A model of src/app.py: three Flask request handlers (create_table,      *)
(* update_table, read) that share one process-wide Dolt handle (DOLT) and  *)
(* wrap their work in a DoltCheckoutContext.                               *)
(*                                                                         *)
(* Flask's development server (app.run(), line 120) serves each request on *)
(* a thread of its own, so handlers interleave.  Every call on the Dolt    *)
(* handle is one atomic step of the model; the Python code between two     *)
(* calls is folded into the step of a call next to it.                     *)
(***************************************************************************)
EXTENDS Integers, Sequences, FiniteSets, TLC

(***************************************************************************)
(* Bounds of the model.                                                    *)
(***************************************************************************)
\* request-handling threads that may be in flight at once
MaxThreads == 2
\* requests served in one behaviour
MaxServed == 2
\* collaborator calls that fail for a reason outside the model (I/O)
MaxFaults == 1

Threads == 1..MaxThreads

BranchNames == {"main", "dev"}
TableNames  == {"t1", "t2"}
Fields      == {"branch", "table", "data", "primary_keys"}
Endpoints   == {"create_table", "update_table", "read_table"}

(***************************************************************************)
(* JSON values of a request payload, tagged with their Python type.        *)
(***************************************************************************)
Str(x)  == [t |-> "str",      s |-> x,  l |-> <<>>]
List(x) == [t |-> "list",     s |-> "", l |-> x]
None    == [t |-> "NoneType", s |-> "", l |-> <<>>]
\* the marker of a key the payload does not hold
Absent  == [t |-> "absent",   s |-> "", l |-> <<>>]

\* Python's == on two tagged values
PyEq(a, b) == a.t = b.t /\ a.s = b.s /\ a.l = b.l

Rows1 == << [id |-> 1, v |-> 10] >>
Rows2 == << [id |-> 1, v |-> 11], [id |-> 2, v |-> 20] >>

BranchChoice == {Str(b) : b \in BranchNames} \cup {Absent}
TableChoice  == {Str("t1"), Absent}
DataChoice   == {List(Rows1), List(Rows2), Absent}
PkChoice     == {List(<<"id">>), Absent}

\* the payloads requests are drawn from: every field the endpoint reads
\* present, or one of them left out of an otherwise fixed payload (an
\* endpoint passes None for a field it does not read)
Complete(b, t, d, k) == Absent \notin {b, t, d, k}
OneLeftOut(b, t, d, k) ==
    /\ Cardinality({i \in 1..4 : <<b, t, d, k>>[i] = Absent}) = 1
    /\ b \in {Str("dev"), Absent}
    /\ d # List(Rows2)
Drawn(b, t, d, k) == Complete(b, t, d, k) \/ OneLeftOut(b, t, d, k)

\* the payload holding exactly the keys whose choice is not Absent
MkPayload(b, t, d, k) ==
    LET choice == [f \in Fields |->
                     CASE f = "branch" -> b
                       [] f = "table" -> t
                       [] f = "data" -> d
                       [] OTHER -> k]
    IN  [f \in {x \in Fields : choice[x] # Absent} |-> choice[f]]

(***************************************************************************)
(* _extract_parameter (lines 35-42): <<value, error>>.                     *)
(***************************************************************************)
NoErr == [kind |-> "None", what |-> ""]
ValueError(kind, what) == [kind |-> kind, what |-> what]

extract_parameter(payload, parameter, parameter_type) ==
    IF parameter \in DOMAIN payload
    THEN LET parameter_value == payload[parameter]
         IN  IF parameter_value.t # parameter_type
             THEN <<parameter_value, ValueError("not of type", parameter)>>
             ELSE <<parameter_value, NoErr>>
    ELSE <<None, ValueError("missing", parameter)>>

\* the fields each endpoint extracts (lines 63-65, 83-86, 104-105)
Extracted(ep) ==
    CASE ep = "create_table" -> {"branch", "table", "primary_keys", "data"}
      [] ep = "update_table" -> {"branch", "table", "data"}
      [] OTHER               -> {"table", "branch"}


(***************************************************************************)
(* State.                                                                  *)
(*   The Dolt repository behind the handle DOLT (line 8, set on line 119): *)
(*     branches  the names of the branches that exist                      *)
(*     cur       the branch the handle is checked out on (the cursor)      *)
(*     work      per branch, the working tables: table name -> rows        *)
(*     staged    per branch, the tables staged by add                      *)
(*     log       per branch, the commits, oldest first                     *)
(*     nextHash  the hash the next commit gets                             *)
(*   Each request-handling thread:                                         *)
(*     pc        its position in the handler                               *)
(*     req       the endpoint, the payload and the extracted parameters    *)
(*     ctx       the fields of its DoltCheckoutContext                     *)
(*     out       what the with-body has returned or raised so far          *)
(*   Observations (no code reads them):                                    *)
(*     obs       per thread, what the request in flight has done so far    *)
(*     lastCall  the most recent call the handle received                  *)
(*     answered  the request answered most recently, with the response    *)
(*               Flask sent                                                *)
(*     served    the number of requests received                           *)
(*     faults    the number of calls failed for an outside reason          *)
(***************************************************************************)
VARIABLES branches, cur, work, staged, log, nextHash,
          pc, req, ctx, out,
          obs, lastCall, answered, served, faults

repo    == <<branches, cur, work, staged, log, nextHash>>
threads == <<pc, req, ctx, out>>
ghost   == <<obs, lastCall, answered, served, faults>>
vars    == <<branches, cur, work, staged, log, nextHash,
             pc, req, ctx, out,
             obs, lastCall, answered, served, faults>>

NoReq == [ep |-> "none", payload |-> <<>>, branch |-> None, table |-> None,
          data |-> None, primary_keys |-> None, errs |-> <<>>]
NoCtx == [checkout_branch |-> None, create |-> FALSE,
          current_branch |-> "", branches |-> {}]
NoCommit == [commit_hash |-> 0, timestamp |-> 0, author |-> "", message |-> <<>>]
NoOut  == [raised |-> "", commit |-> NoCommit, rows |-> <<>>]
NoResp == [status |-> 0, exc |-> "", context |-> "", origin |-> "",
           commit |-> NoCommit, rows |-> <<>>]
\* what a request remembers of the request answered before it arrived
NoPrev == [ep |-> "none", branch |-> None, table |-> None, data |-> None,
           resp |-> NoResp, curBefore |-> "", alone |-> TRUE, committed |-> 0]
NoObs  == [ncalls |-> 0, ncheckouts |-> 0, imported |-> FALSE, committed |-> 0,
           curBefore |-> "", branchesBefore |-> {}, alone |-> TRUE,
           tableBefore |-> FALSE, rowsBefore |-> <<>>, prev |-> NoPrev]
NoAnswer == [ep |-> "none", branch |-> None, table |-> None, data |-> None,
             errs |-> <<>>, ctx |-> NoCtx, out |-> NoOut, resp |-> NoResp,
             obs |-> NoObs,
             curAfter |-> "", branchesAfter |-> {}]
NoCall == [op |-> "none", thread |-> 0, ep |-> "none", phase |-> "",
           want |-> None, arg |-> None, flag |-> FALSE, cur |-> "", ok |-> TRUE]

\* the commit every repository starts with
InitCommit == [commit_hash |-> 1, timestamp |-> 1, author |-> "dolt",
               message |-> <<"Initialize data repository">>]

\* the repositories the service may be started on (--dolt-path, line 116)
InitTables == { <<>>, [t \in {"t1"} |-> Rows1] }

Init ==
    /\ branches \in { {"main"}, {"main", "dev"} }
    /\ cur = "main"
    /\ \E wm \in InitTables, wd \in InitTables :
          work = [b \in BranchNames |->
                    IF b = "main" THEN wm
                    ELSE IF b \in branches THEN wd ELSE <<>>]
    /\ staged = [b \in BranchNames |-> {}]
    /\ log = [b \in BranchNames |-> IF b \in branches THEN <<InitCommit>> ELSE <<>>]
    /\ nextHash = 2
    /\ pc = [r \in Threads |-> "idle"]
    /\ req = [r \in Threads |-> NoReq]
    /\ ctx = [r \in Threads |-> NoCtx]
    /\ out = [r \in Threads |-> NoOut]
    /\ obs = [r \in Threads |-> NoObs]
    /\ lastCall = NoCall
    /\ answered = NoAnswer
    /\ served = 0
    /\ faults = 0

(***************************************************************************)
(* Observation helpers.                                                    *)
(***************************************************************************)
\* whether the next call fails for a reason outside the model
FaultChoice == IF faults < MaxFaults THEN {FALSE, TRUE} ELSE {FALSE}

Call(op, r, phase, arg, flag, ok) ==
    [op |-> op, thread |-> r, ep |-> req[r].ep, phase |-> phase,
     want |-> req[r].branch, arg |-> arg, flag |-> flag, cur |-> cur, ok |-> ok]

Counted(r, isCheckout) ==
    [obs[r] EXCEPT !.ncalls = @ + 1,
                   !.ncheckouts = IF isCheckout THEN @ + 1 ELSE @]

\* Flask's answer to a handler that raised: 500
Error(exc, context, origin) ==
    [status |-> 500, exc |-> exc, context |-> context, origin |-> origin,
     commit |-> NoCommit, rows |-> <<>>]
\* Flask's answer to a handler that returned jsonify(...): 200
Ok(o) ==
    [status |-> 200, exc |-> "", context |-> "", origin |-> "",
     commit |-> o.commit, rows |-> o.rows]

\* the request answered most recently, as the next request remembers it
Prev == [ep |-> answered.ep, branch |-> answered.branch, table |-> answered.table,
         data |-> answered.data, resp |-> answered.resp,
         curBefore |-> answered.obs.curBefore, alone |-> answered.obs.alone,
         committed |-> answered.obs.committed]

\* whether the table a payload names exists on the branch it names, and its rows
TableOn(payload) ==
    /\ "branch" \in DOMAIN payload /\ "table" \in DOMAIN payload
    /\ payload["branch"].s \in branches
    /\ payload["table"].s \in DOMAIN work[payload["branch"].s]
RowsOn(payload) ==
    IF TableOn(payload) THEN work[payload["branch"].s][payload["table"].s] ELSE <<>>

(***************************************************************************)
(* DoltCheckoutContext.__init__ (lines 12-16): one call, DOLT.branch(),    *)
(* whose answer the context keeps.                                         *)
(***************************************************************************)
DoltCheckoutContext_init(r, checkout_branch, create) ==
    /\ ctx' = [ctx EXCEPT ![r] =
                 [checkout_branch |-> checkout_branch,
                  create |-> create,
                  current_branch |-> cur,
                  branches |-> branches]]
    /\ pc' = [pc EXCEPT ![r] = "enter"]

(***************************************************************************)
(* A request arrives: the handler reads the payload, extracts its          *)
(* parameters and constructs its DoltCheckoutContext, the first call on    *)
(* the handle.  The errors _extract_parameter returns are bound to names   *)
(* no line reads again ("# validate the inputs" is a comment only).        *)
(***************************************************************************)
Receive(r, ep, payload) ==
    /\ pc[r] = "idle"
    /\ served < MaxServed
    \* threads are interchangeable: the free thread of the lowest number serves
    /\ \A q \in Threads : q < r => pc[q] # "idle"
    /\ LET branch       == extract_parameter(payload, "branch", "str")
           table        == extract_parameter(payload, "table", "str")
           primary_keys == extract_parameter(payload, "primary_keys", "str")
           data         == extract_parameter(payload, "data", "str")
           all == [f \in Fields |->
                     CASE f = "branch" -> branch
                       [] f = "table" -> table
                       [] f = "data" -> data
                       [] OTHER -> primary_keys]
       IN  req' = [req EXCEPT ![r] =
                     [ep |-> ep, payload |-> payload,
                      branch |-> branch[1], table |-> table[1],
                      data |-> IF "data" \in Extracted(ep) THEN data[1] ELSE None,
                      primary_keys |-> IF "primary_keys" \in Extracted(ep)
                                       THEN primary_keys[1] ELSE None,
                      errs |-> [f \in Extracted(ep) |-> all[f][2]]]]
    /\ obs' = [q \in Threads |->
                 IF q = r
                 THEN [NoObs EXCEPT !.ncalls = 1,
                                    !.curBefore = cur, !.branchesBefore = branches,
                                    !.alone = \A p \in Threads \ {r} : pc[p] = "idle",
                                    !.tableBefore = TableOn(payload),
                                    !.rowsBefore = RowsOn(payload),
                                    !.prev = Prev]
                 ELSE IF pc[q] = "idle" THEN obs[q]
                 ELSE [obs[q] EXCEPT !.alone = FALSE]]
    /\ served' = served + 1
    /\ DoltCheckoutContext_init(r, req'[r].branch, ep # "read_table")
    /\ lastCall' = [Call("branch", r, "init", None, FALSE, TRUE)
                       EXCEPT !.ep = ep, !.want = req'[r].branch]
    /\ UNCHANGED <<repo, out, answered, faults>>

\* POST /api/create_table (lines 79-86)
create_table(r) ==
    \E b \in BranchChoice, t \in TableChoice, d \in DataChoice, k \in PkChoice :
        /\ Drawn(b, t, d, k)
        /\ Receive(r, "create_table", MkPayload(b, t, d, k))

\* POST /api/update_table (lines 59-65)
update_table(r) ==
    \E b \in BranchChoice, t \in TableChoice, d \in DataChoice :
        /\ Drawn(b, t, d, None)
        /\ Receive(r, "update_table", MkPayload(b, t, d, Absent))

\* GET /api/read_table (lines 100-105)
read(r) ==
    \E b \in BranchChoice, t \in TableChoice :
        /\ Drawn(b, t, None, None)
        /\ Receive(r, "read_table", MkPayload(b, t, Absent, Absent))

(***************************************************************************)
(* The Dolt handle's operations, as doltpy's Dolt class and its read and   *)
(* write modules provide them (imported on line 2).                        *)
(***************************************************************************)
\* dolt checkout [-b] <branch>: -b creates, and refuses a branch that exists;
\* without -b the branch must exist
CheckoutOk(branch, flag) ==
    /\ branch.t = "str"
    /\ branch.s \in BranchNames
    /\ IF flag THEN branch.s \notin branches ELSE branch.s \in branches

\* the repository after a checkout that succeeded: a new branch starts as a
\* copy of the branch it was created from
Checkout(branch, flag) ==
    /\ cur' = branch.s
    /\ branches' = branches \cup {branch.s}
    /\ work' = IF flag THEN [work EXCEPT ![branch.s] = work[cur]] ELSE work
    /\ staged' = IF flag THEN [staged EXCEPT ![branch.s] = staged[cur]] ELSE staged
    /\ log' = IF flag THEN [log EXCEPT ![branch.s] = log[cur]] ELSE log
    /\ UNCHANGED nextHash

\* the names DOLT.ls() lists: the tables of the branch checked out
Ls == DOMAIN work[cur]

\* dolt table import -u: rows replace the rows of the same key and are added
\* otherwise
Upsert(old, new) ==
    LET ids == {new[i].id : i \in 1..Len(new)}
    IN  SelectSeq(old, LAMBDA row : row.id \notin ids) \o new

\* pd.DataFrame(data) (lines 46, 75, 96): the rows of a list, no rows of None
DataFrame(data) == IF data.t = "list" THEN data.l ELSE <<>>

\* import_df: -c refuses a table that exists and needs primary keys; -u
\* needs the table
ImportOk(table, primary_keys, import_mode) ==
    /\ table.t = "str"
    /\ table.s \in TableNames
    /\ IF import_mode = "create"
       THEN table.s \notin Ls /\ primary_keys.t = "list"
       ELSE table.s \in Ls

Imported(table, rows, import_mode) ==
    [work EXCEPT ![cur] =
        [x \in DOMAIN work[cur] \cup {table.s} |->
            IF x # table.s THEN work[cur][x]
            ELSE IF import_mode = "create" THEN rows
            ELSE Upsert(work[cur][x], rows)]]

\* line 48
CommitMessage(table, import_mode) ==
    <<"Executed import on table ", table.s, " in import mode \"", import_mode, "\"">>

\* dolt.log()[0]: the most recent commit of the branch checked out
LogHead == log[cur][Len(log[cur])]

(***************************************************************************)
(* The handler returns or raises: Flask sends the response and the thread  *)
(* is free for the next request.                                           *)
(***************************************************************************)
Answered(r, response, o, curAfter) ==
    [ep |-> req[r].ep, branch |-> req[r].branch, table |-> req[r].table,
     data |-> req[r].data, errs |-> req[r].errs, ctx |-> ctx[r],
     out |-> out[r], resp |-> response, obs |-> o, curAfter |-> curAfter,
     branchesAfter |-> branches]

respond(r, response, o, curAfter) ==
    /\ answered' = Answered(r, response, o, curAfter)
    /\ pc' = [pc EXCEPT ![r] = "idle"]
    /\ req' = [req EXCEPT ![r] = NoReq]
    /\ ctx' = [ctx EXCEPT ![r] = NoCtx]
    /\ out' = [out EXCEPT ![r] = NoOut]
    /\ obs' = [obs EXCEPT ![r] = NoObs]

(***************************************************************************)
(* DoltCheckoutContext.__enter__ (lines 18-28).                            *)
(***************************************************************************)
\* self.checkout_branch != self.current_branch.name (lines 19 and 31)
OtherBranch(c) == ~PyEq(c.checkout_branch, Str(c.current_branch))

\* line 22: self.checkout_branch not in [branch.name for branch in self.branches]
NotInBranches(c) == ~\E b \in c.branches : PyEq(c.checkout_branch, Str(b))

\* the branch __enter__ checks out when create is False (line 24)
EnterNoCreateTarget(c) == Str(c.current_branch)

\* __enter__ treating create False as it treats create True
EnterPlan_ReadCreates(c) ==
    IF OtherBranch(c)
    THEN [act |-> "checkout", branch |-> c.checkout_branch,
          flag |-> NotInBranches(c)]
    ELSE IF ~c.create
         THEN [act |-> "raise", branch |-> None, flag |-> FALSE]
         ELSE [act |-> "pass", branch |-> None, flag |-> FALSE]

\* what __enter__ does: a checkout, a bare raise, or nothing
EnterPlan(c) ==
    IF OtherBranch(c)
    THEN IF c.create
         THEN [act |-> "checkout", branch |-> c.checkout_branch,
               flag |-> NotInBranches(c)]
         ELSE [act |-> "checkout", branch |-> EnterNoCreateTarget(c), flag |-> FALSE]
    ELSE IF ~c.create
         THEN [act |-> "raise", branch |-> None, flag |-> FALSE]
         ELSE [act |-> "pass", branch |-> None, flag |-> FALSE]

\* the first statement of the with-body
BodyStart(r) == IF req[r].ep = "read_table" THEN "read" ELSE "ls"

DoltCheckoutContext_enter(r) ==
    /\ pc[r] = "enter"
    /\ LET plan == EnterPlan(ctx[r])
       IN  CASE plan.act = "checkout" ->
                  \E fail \in FaultChoice :
                     LET ok == ~fail /\ CheckoutOk(plan.branch, plan.flag)
                     IN  /\ faults' = IF fail THEN faults + 1 ELSE faults
                         /\ lastCall' = Call("checkout", r, "enter", plan.branch,
                                             plan.flag, ok)
                         /\ IF ok
                            THEN /\ Checkout(plan.branch, plan.flag)
                                 /\ pc' = [pc EXCEPT ![r] = BodyStart(r)]
                                 /\ obs' = [obs EXCEPT ![r] = Counted(r, TRUE)]
                                 /\ UNCHANGED <<req, ctx, out, answered>>
                            \* __enter__ raised: the with statement calls no
                            \* __exit__
                            ELSE /\ respond(r, Error("CollaboratorError", "", "enter"),
                                            Counted(r, TRUE), cur)
                                 /\ UNCHANGED repo
             [] plan.act = "raise" ->
                  \* a bare raise with no exception being handled (line 28)
                  /\ respond(r, Error("RuntimeError", "", "enter"), obs[r], cur)
                  /\ UNCHANGED <<repo, lastCall, faults>>
             [] OTHER ->
                  /\ pc' = [pc EXCEPT ![r] = BodyStart(r)]
                  /\ UNCHANGED <<repo, lastCall, obs, req, ctx, out, answered, faults>>
    /\ UNCHANGED served

(***************************************************************************)
(* The with-body of update_table (lines 70-76) and create_table (lines     *)
(* 91-97), and _import_and_commit (lines 45-56).                           *)
(***************************************************************************)
ImportMode(ep) == IF ep = "create_table" THEN "create" ELSE "update"

\* table in [table.name for table in tables]
InTables(table, tables) == table.t = "str" /\ table.s \in tables

\* the precondition of the import: update needs the table (line 71), create
\* needs it absent (line 92)
PreconditionHolds(ep, table, tables) ==
    IF ep = "update_table" THEN InTables(table, tables)
    ELSE ~InTables(table, tables)

\* a call of the body failed, or a bare raise: the with statement leaves
Raise(r, exc) ==
    /\ out' = [out EXCEPT ![r] = [NoOut EXCEPT !.raised = exc]]
    /\ pc' = [pc EXCEPT ![r] = "exit"]

\* tables = DOLT.ls() and the test that follows it
body_ls(r) ==
    /\ pc[r] = "ls"
    /\ \E fail \in FaultChoice :
          /\ faults' = IF fail THEN faults + 1 ELSE faults
          /\ lastCall' = Call("ls", r, "body", None, FALSE, ~fail)
          /\ IF fail THEN Raise(r, "CollaboratorError")
             ELSE IF ~PreconditionHolds(req[r].ep, req[r].table, Ls)
             THEN Raise(r, "RuntimeError")
             ELSE /\ pc' = [pc EXCEPT ![r] = "import"]
                  /\ UNCHANGED out
    /\ obs' = [obs EXCEPT ![r] = Counted(r, FALSE)]
    /\ UNCHANGED <<repo, req, ctx, answered, served>>

\* dolt_write.import_df(dolt, table, pd.DataFrame(data), primary_keys, import_mode)
body_import_df(r) ==
    /\ pc[r] = "import"
    /\ \E fail \in FaultChoice :
          LET mode == ImportMode(req[r].ep)
              ok == ~fail /\ ImportOk(req[r].table, req[r].primary_keys, mode)
          IN  /\ faults' = IF fail THEN faults + 1 ELSE faults
              /\ lastCall' = Call("import_df", r, "body", req[r].table, FALSE, ok)
              /\ IF ok
                 THEN /\ work' = Imported(req[r].table, DataFrame(req[r].data), mode)
                      /\ pc' = [pc EXCEPT ![r] = "add"]
                      /\ UNCHANGED out
                 ELSE /\ Raise(r, "CollaboratorError")
                      /\ UNCHANGED work
    /\ obs' = [obs EXCEPT ![r] = [Counted(r, FALSE) EXCEPT !.imported = TRUE]]
    /\ UNCHANGED <<branches, cur, staged, log, nextHash, req, ctx,
                   answered, served>>

\* dolt.add(table)
body_add(r) ==
    /\ pc[r] = "add"
    /\ \E fail \in FaultChoice :
          LET ok == ~fail /\ req[r].table.s \in Ls
          IN  /\ faults' = IF fail THEN faults + 1 ELSE faults
              /\ lastCall' = Call("add", r, "body", req[r].table, FALSE, ok)
              /\ IF ok
                 THEN /\ staged' = [staged EXCEPT ![cur] = @ \cup {req[r].table.s}]
                      /\ pc' = [pc EXCEPT ![r] = "commit"]
                      /\ UNCHANGED out
                 ELSE /\ Raise(r, "CollaboratorError")
                      /\ UNCHANGED staged
    /\ obs' = [obs EXCEPT ![r] = Counted(r, FALSE)]
    /\ UNCHANGED <<branches, cur, work, log, nextHash, req, ctx,
                   answered, served>>

\* dolt.commit('Executed import on table {} in import mode "{}"'...): refused
\* when nothing is staged
body_commit(r) ==
    /\ pc[r] = "commit"
    /\ \E fail \in FaultChoice :
          LET ok == ~fail /\ staged[cur] # {}
              c == [commit_hash |-> nextHash, timestamp |-> nextHash,
                    author |-> "dolt",
                    message |-> CommitMessage(req[r].table, ImportMode(req[r].ep))]
          IN  /\ faults' = IF fail THEN faults + 1 ELSE faults
              /\ lastCall' = Call("commit", r, "body", req[r].table, FALSE, ok)
              /\ IF ok
                 THEN /\ log' = [log EXCEPT ![cur] = Append(@, c)]
                      /\ staged' = [staged EXCEPT ![cur] = {}]
                      /\ nextHash' = nextHash + 1
                      /\ pc' = [pc EXCEPT ![r] = "log"]
                      /\ obs' = [obs EXCEPT ![r] =
                                   [Counted(r, FALSE) EXCEPT !.committed = nextHash]]
                      /\ UNCHANGED out
                 ELSE /\ Raise(r, "CollaboratorError")
                      /\ obs' = [obs EXCEPT ![r] = Counted(r, FALSE)]
                      /\ UNCHANGED <<log, staged, nextHash>>
    /\ UNCHANGED <<branches, cur, work, req, ctx, answered, served>>

\* commit = dolt.log()[0] and the dictionary returned (lines 49-56), then
\* return jsonify(commit_details)
body_log(r) ==
    /\ pc[r] = "log"
    /\ \E fail \in FaultChoice :
          /\ faults' = IF fail THEN faults + 1 ELSE faults
          /\ lastCall' = Call("log", r, "body", None, FALSE, ~fail)
          /\ IF fail THEN Raise(r, "CollaboratorError")
             ELSE /\ out' = [out EXCEPT ![r] = [NoOut EXCEPT !.commit = LogHead]]
                  /\ pc' = [pc EXCEPT ![r] = "exit"]
    /\ obs' = [obs EXCEPT ![r] = Counted(r, FALSE)]
    /\ UNCHANGED <<repo, req, ctx, answered, served>>

(***************************************************************************)
(* The with-body of read (lines 110-111).                                  *)
(***************************************************************************)
\* dolt_read.read_table(DOLT, table).to_dict('rows')
body_read_table(r) ==
    /\ pc[r] = "read"
    /\ \E fail \in FaultChoice :
          LET ok == ~fail /\ InTables(req[r].table, Ls)
          IN  /\ faults' = IF fail THEN faults + 1 ELSE faults
              /\ lastCall' = Call("read_table", r, "body", req[r].table, FALSE, ok)
              /\ IF ok
                 THEN /\ out' = [out EXCEPT ![r] =
                                   [NoOut EXCEPT !.rows = work[cur][req[r].table.s]]]
                      /\ pc' = [pc EXCEPT ![r] = "exit"]
                 ELSE Raise(r, "CollaboratorError")
    /\ obs' = [obs EXCEPT ![r] = Counted(r, FALSE)]
    /\ UNCHANGED <<repo, req, ctx, answered, served>>

(***************************************************************************)
(* DoltCheckoutContext.__exit__ (lines 30-32).  The with statements (lines *)
(* 69, 90, 109) call it with the context and the three exception           *)
(* arguments; it is declared with self alone, so the call raises TypeError *)
(* before its first line runs, whatever the body returned or raised.       *)
(***************************************************************************)
\* the positional parameters __exit__ declares (line 30)
ExitParams == 1
\* the positional arguments a with statement passes to __exit__
WithExitArgs == 4

ExitCallable == ExitParams = WithExitArgs

\* the body of __exit__ (lines 31-32): the branch it checks out, if any
ExitPlan(c) ==
    IF OtherBranch(c)
    THEN [act |-> "checkout", branch |-> Str(c.current_branch), flag |-> FALSE]
    ELSE [act |-> "pass", branch |-> None, flag |-> FALSE]

\* the response once __exit__ has returned None: the body's own outcome
BodyOutcome(o) ==
    IF o.raised # "" THEN Error(o.raised, "", "body") ELSE Ok(o)

DoltCheckoutContext_exit(r) ==
    /\ pc[r] = "exit"
    /\ IF ~ExitCallable
       THEN /\ respond(r, Error("TypeError", out[r].raised, "exit"), obs[r], cur)
            /\ UNCHANGED <<repo, lastCall, faults>>
       ELSE LET plan == ExitPlan(ctx[r])
            IN  IF plan.act = "checkout"
                THEN \E fail \in FaultChoice :
                        LET ok == ~fail /\ CheckoutOk(plan.branch, plan.flag)
                        IN  /\ faults' = IF fail THEN faults + 1 ELSE faults
                            /\ lastCall' = Call("checkout", r, "exit", plan.branch,
                                                plan.flag, ok)
                            /\ IF ok
                               THEN /\ Checkout(plan.branch, plan.flag)
                                    /\ respond(r, BodyOutcome(out[r]),
                                               Counted(r, TRUE), plan.branch.s)
                               ELSE /\ respond(r, Error("CollaboratorError",
                                                        out[r].raised, "exit"),
                                               Counted(r, TRUE), cur)
                                    /\ UNCHANGED repo
                ELSE /\ respond(r, BodyOutcome(out[r]), obs[r], cur)
                     /\ UNCHANGED <<repo, lastCall, faults>>
    /\ UNCHANGED served

Next ==
    \E r \in Threads :
        \/ create_table(r)
        \/ update_table(r)
        \/ read(r)
        \/ DoltCheckoutContext_enter(r)
        \/ body_ls(r)
        \/ body_import_df(r)
        \/ body_add(r)
        \/ body_commit(r)
        \/ body_log(r)
        \/ body_read_table(r)
        \/ DoltCheckoutContext_exit(r)

Spec == Init /\ [][Next]_vars

(***************************************************************************)
(* Properties.                                                             *)
(***************************************************************************)
\* a thread is inside its scope from the return of __enter__ to the end of
\* __exit__
InScope(r) == pc[r] \in {"ls", "import", "add", "commit", "log", "read", "exit"}

\* the branch a request names, when it names one
Names(v, S) == v.t = "str" /\ v.s \in S

\* C1: at most one DoltCheckoutContext scope is between its checkout and the
\* end of its restoration at a time, whatever branches and tables the
\* requests target.
C1_OneScopeAtATime ==
    Cardinality({r \in Threads : InScope(r)}) <= 1

\* C2: for two requests whose scopes target different branches, the entry
\* checkout of the second is never issued while the first is still inside
\* its scope (its restoring checkout has not completed).
C2_CheckoutsNeverInterleave ==
    [][\A r \in Threads :
          (/\ pc[r] = "enter"
           /\ pc'[r] # "enter"
           /\ EnterPlan(ctx[r]).act = "checkout")
          => \A q \in Threads \ {r} :
                ~(InScope(q) /\ ~PyEq(req[q].branch, req[r].branch))]_vars

\* C3: at every call made by a request's with-body (ls, import_df, add,
\* commit, log, read_table) the branch the handle is checked out on is the
\* branch the request names.
C3_BodyRunsOnRequestedBranch ==
    (lastCall.phase = "body" /\ lastCall.want.t = "str")
        => PyEq(Str(lastCall.cur), lastCall.want)

\* C4: every request whose with-body was entered ends, however the body
\* ended, with the handle back on the branch B0 that was current before the
\* scope.
C4_RestoredOnEveryExit ==
    (answered.ep # "none" /\ answered.resp.origin # "enter")
        => answered.curAfter = answered.ctx.current_branch

\* C5: a request whose payload lacks a required field gets a missing-parameter
\* error from the extraction and issues no call on the Dolt handle.
C5_MissingFieldNoCall ==
    \A r \in Threads :
        \A f \in DOMAIN req[r].errs :
            (f \notin DOMAIN req[r].payload)
                => /\ req[r].errs[f].kind = "missing"
                   /\ obs[r].ncalls = 0

\* C6: create_table never attempts an import while the table exists on the
\* branch it names, and update_table never attempts one while the table is
\* absent from the branch it names: the request fails at the precondition,
\* with no import and no commit.
C6_NoImportWithoutPrecondition ==
    [][\A r \in Threads :
          (/\ pc[r] = "import"
           /\ pc'[r] # "import"
           /\ Names(req[r].branch, branches))
          => PreconditionHolds(req[r].ep, req[r].table,
                               DOMAIN work[req[r].branch.s])]_vars

\* C7: a create_table or update_table request answered with an error has
\* created no commit.
C7_ErrorMeansNoCommit ==
    (answered.ep \in {"create_table", "update_table"} /\ answered.resp.status # 200)
        => answered.obs.committed = 0

\* C8: a read_table request for a branch that does not exist fails at the
\* entry of its scope (the read never runs), and the set of branches after
\* the request is the set before it.
C8_ReadOfMissingBranchFails ==
    /\ \A r \in Threads :
          (req[r].ep = "read_table" /\ req[r].branch.t = "str" /\ InScope(r))
              => req[r].branch.s \in branches
    /\ (answered.ep = "read_table" /\ answered.obs.alone)
          => answered.branchesAfter = answered.obs.branchesBefore

\* C9: the checkout a read_table scope issues on entry, for an existing
\* branch that is not the current one, targets the branch requested and
\* does not set the create flag.
C9_ReadChecksOutRequestedBranch ==
    (/\ lastCall.op = "checkout"
     /\ lastCall.phase = "enter"
     /\ lastCall.ep = "read_table"
     /\ Names(lastCall.want, branches))
        => PyEq(lastCall.arg, lastCall.want) /\ ~lastCall.flag

\* C10: two read_table requests in immediate succession, with the same
\* branch and table and the table present on that branch, both return the
\* same rows, and the handle's branch after them is the branch before them.
C10_ReadTwiceSame ==
    (/\ answered.ep = "read_table"
     /\ answered.obs.alone
     /\ answered.obs.prev.ep = "read_table"
     /\ answered.obs.prev.alone
     /\ PyEq(answered.obs.prev.branch, answered.branch)
     /\ PyEq(answered.obs.prev.table, answered.table)
     /\ answered.obs.tableBefore)
        => /\ answered.resp.status = 200
           /\ answered.obs.prev.resp.status = 200
           /\ answered.resp.rows = answered.obs.prev.resp.rows
           /\ answered.curAfter = answered.obs.prev.curBefore

\* C11: a create_table of table T with rows R on branch B that went through
\* (its commit was made), followed by a read_table of T on B, returns the
\* rows R, whatever branch the handle was on before each call.
C11_CreateThenReadRoundTrip ==
    (/\ answered.ep = "read_table"
     /\ answered.obs.alone
     /\ answered.obs.prev.ep = "create_table"
     /\ answered.obs.prev.alone
     /\ answered.obs.prev.committed # 0
     /\ PyEq(answered.obs.prev.branch, answered.branch)
     /\ PyEq(answered.obs.prev.table, answered.table))
        => /\ answered.resp.status = 200
           /\ answered.resp.rows = DataFrame(answered.obs.prev.data)

\* C12: the __enter__ of a scope with create True for the branch the handle
\* is on when the scope is entered issues no checkout and goes on to the
\* with-body.
C12_CurrentBranchCreateNoCheckout ==
    [][\A r \in Threads :
          (/\ pc[r] = "enter"
           /\ pc'[r] # "enter"
           /\ ctx[r].create
           /\ PyEq(req[r].branch, Str(cur)))
              => /\ lastCall' = lastCall
                 /\ pc'[r] = "ls"
                 /\ obs'[r].ncheckouts = 0
                 /\ cur' = cur]_vars

\* C13: a create_table or update_table whose import and commit went through
\* and whose body raised nothing answers 200 with the descriptor of the commit
\* it made itself, whose message is
\* Executed import on table <table> in import mode "<mode>", whatever other
\* requests ran meanwhile.
C13_ReturnsOwnCommit ==
    (/\ answered.ep \in {"create_table", "update_table"}
     /\ answered.obs.committed # 0
     /\ answered.out.raised = "")
        => /\ answered.resp.status = 200
           /\ answered.resp.commit.commit_hash = answered.obs.committed
           /\ answered.resp.commit.message
                 = CommitMessage(answered.table, ImportMode(answered.ep))

\* C14: the __enter__ of a scope with create True for a branch other than
\* the one the handle is on when the scope is entered issues exactly one
\* checkout, of the requested branch, passing the create flag exactly when
\* the repository does not have that branch; no existing branch is touched
\* by it.
C14_EntryCheckoutCreatesIffAbsent ==
    [][\A r \in Threads :
          (/\ pc[r] = "enter"
           /\ pc'[r] # "enter"
           /\ ctx[r].create
           /\ ~PyEq(req[r].branch, Str(cur)))
              => /\ lastCall'.op = "checkout"
                 /\ lastCall'.thread = r
                 /\ lastCall'.phase = "enter"
                 /\ PyEq(lastCall'.arg, req[r].branch)
                 /\ lastCall'.flag <=> ~Names(req[r].branch, branches)
                 /\ (IF pc'[r] = "idle" THEN answered'.obs.ncheckouts
                     ELSE obs'[r].ncheckouts) = 1
                 /\ \A b \in branches :
                       /\ b \in branches'
                       /\ work'[b] = work[b]
                       /\ log'[b] = log[b]]_vars

\* C15: a read_table request for the branch the handle is on, served alone,
\* with the table present there, issues no checkout, raises nothing and
\* answers 200 with the rows of the table.
C15_ReadOfCurrentBranchProceeds ==
    (/\ answered.ep = "read_table"
     /\ answered.obs.alone
     /\ ~answered.ctx.create
     /\ PyEq(answered.branch, Str(answered.obs.curBefore))
     /\ answered.obs.tableBefore)
        => /\ answered.obs.ncheckouts = 0
           /\ answered.resp.exc = ""
           /\ answered.resp.status = 200
           /\ answered.resp.rows = answered.obs.rowsBefore

\* C16: the extraction of the four fields of a create_table payload that has
\* branch and table as strings and primary_keys and data as lists reports no
\* error for any of them.
C16_WellFormedCreatePayloadNoError ==
    \A r \in Threads :
        (/\ req[r].ep = "create_table"
         /\ DOMAIN req[r].payload = Fields
         /\ req[r].payload["branch"].t = "str"
         /\ req[r].payload["table"].t = "str"
         /\ req[r].payload["primary_keys"].t = "list"
         /\ req[r].payload["data"].t = "list")
            => \A f \in Fields : req[r].errs[f] = NoErr

\* C17: when the scope ends with a failure of its exit, the error reported
\* still carries what the with-body produced: the exception it raised, or the
\* commit or rows it returned.
C17_ExitFailureCarriesBodyOutcome ==
    (answered.ep # "none" /\ answered.resp.origin = "exit"
     /\ answered.resp.status # 200)
        => /\ answered.resp.exc # ""
           /\ answered.resp.context = answered.out.raised
           /\ answered.resp.commit = answered.out.commit
           /\ answered.resp.rows = answered.out.rows

\* C18: a scope is entered only when no other request is inside a scope, and
\* a scope that moved the handle to another branch ends only once its
\* restoring checkout has been done, so that the next scope starts from a
\* handle nobody holds.
C18_ReleasedOnlyAfterRestoration ==
    [][\A r \in Threads :
          /\ (pc[r] = "enter" /\ pc'[r] \in {"ls", "read"})
                => \A q \in Threads \ {r} : pc[q] \in {"idle", "enter"}
          /\ (pc[r] = "exit" /\ pc'[r] = "idle" /\ OtherBranch(ctx[r]))
                => /\ lastCall'.op = "checkout"
                   /\ lastCall'.phase = "exit"
                   /\ lastCall'.thread = r
                   /\ lastCall'.ok]_vars

\* C19: whenever no request is in flight the handle is on the branch it was
\* on when the process started, and the branch a scope would restore is the
\* branch the handle is on when the scope is about to be entered.
C19_QuiescentOnStartBranch ==
    /\ (\A r \in Threads : pc[r] = "idle") => cur = "main"
    /\ \A r \in Threads : pc[r] = "enter" => ctx[r].current_branch = cur

\* C20: no step of a read_table request, from its arrival to its answer,
\* changes the set of branches, the tables and rows of any branch or the
\* commits of any branch; every step that changes one of them is a step of a
\* create_table or update_table request.
C20_ReadChangesNothing ==
    [][/\ \A r \in Threads :
             (/\ pc'[r] # pc[r]
              /\ (IF pc[r] = "idle" THEN req'[r].ep ELSE req[r].ep) = "read_table")
                 => /\ branches' = branches
                    /\ work' = work
                    /\ log' = log
       /\ (branches' # branches \/ work' # work \/ log' # log)
             => \E r \in Threads :
                   /\ pc'[r] # pc[r]
                   /\ req[r].ep \in {"create_table", "update_table"}]_vars

\* a read_table request checked out a branch, read a table that had rows and
\* was answered
C20_Witness ==
    /\ answered.ep = "read_table"
    /\ answered.obs.ncheckouts = 1
    /\ answered.out.rows # <<>>
    /\ answered.resp.origin = "exit"

=============================================================================
